---- MODULE Spec2Model ----
(***************************************************************************)
(* Model of the symbiants simulation core: the agent action economy        *)
(* (src/src/ant/hunger.rs) and the story clock with its tick-rate          *)
(* controller (src/simulation/src/story_time.rs).                          *)
(*                                                                         *)
(* Hunger is an f32 in the source.  The model runs the configuration       *)
(* max = 100.0 with an integral rate and integral starting values, where   *)
(* every value the systems compute (sums, differences, max * 0.20 = 20,    *)
(* max * 0.25 = 25, ...) is an integer below 2^24 and so is exact in f32.  *)
(***************************************************************************)
EXTENDS Integers, Sequences, FiniteSets, TLC

VARIABLES
    \* ---- agents (src/src/ant/hunger.rs) ----
    hunger,          \* Hunger.value of each ant
    inventory,       \* AntInventory: "None", "Food" or "Sand"
    can_act,         \* Initiative: the "can act this tick" flag
    has_initiative,  \* the ant still owns an Initiative component
    dead,            \* the ant owns the Dead marker component
    role,            \* AntRole: "Queen" or "Worker"
    position,        \* Position (one row of cells)
    facing,          \* AntOrientation: "Left" or "Right"
    food,            \* the cells of the world map that hold Element::Food
    commands,        \* deferred commands queued by ants_hunger
    results,         \* ants_regurgitate: the pending transfers not yet applied
    pc,              \* the system of the tick that runs next
    tick,            \* number of ticks started
    \* ---- observation of the agents (history) ----
    acts,            \* consequential actions of each ant in the current tick
    committed,       \* transfers committed in the current run of ants_regurgitate
    last,            \* the latest step of the apply loop, with the values before it
    starved,         \* the ant's Hunger.value was seen at max or above
    before,          \* the ants as the latest ants_hunger met them
    \* ---- story clock (src/simulation/src/story_time.rs) ----
    story_real_world_time,   \* StoryRealWorldTime.0, milliseconds, 0 when never set
    now,                     \* the wall clock Utc::now() reads, milliseconds
    elapsed_ticks,           \* StoryTime.elapsed_ticks
    is_real_time,            \* StoryTime.is_real_time
    ticks_per_second,        \* TicksPerSecond.0
    accumulated,             \* SimulationTime's accumulator, in tenths of a second
    period,                  \* SimulationTime.period, kept as its rate (1 / period)
    pending_ticks,           \* FastForwardingStateInfo.pending_ticks
    initial_pending_ticks,   \* FastForwardingStateInfo.initial_pending_ticks
    playback,                \* State<StoryPlaybackState>
    next_playback,           \* NextState<StoryPlaybackState>, "None" when unset
    phase,                   \* "setup" until setup_story_time ran, then "story"
    panicked,                \* the process aborted on an arithmetic overflow
    frames,                  \* frames rendered
    sim_ticks,               \* simulation ticks run
    rate_changes,            \* changes of the TicksPerSecond setting so far
    resources,               \* the story-time resources the world holds
    teardown,                \* teardowns so far, and what the latest abandoned
    \* ---- observation of the clock (history) ----
    resume,                  \* what the latest setup_story_time did
    entry,                   \* the latest fast-forward: its entry and its calls
    \* ---- grid and element commands (src/src/map.rs, story/element/commands.rs) ----
    elements_cache,          \* the cache: [some |-> initialized, rows |-> rows of cells]
    element,                 \* the world's element entities: kind, "Free" or "Despawned"
    marked,                  \* the entities that own the toggled component
    id_map,                  \* IdMap: the entities registered by spawn_element
    spawned,                 \* number of entity ids handed out
    queue,                   \* deferred element commands, in queueing order
    flushing,                \* apply_deferred is part-way through the queue
    grid_panicked,           \* the process aborted in a grid operation
    queued,                  \* number of commands queued so far
    \* ---- periodic save (src/src/map.rs) ----
    save_snapshot,           \* SAVE_SNAPSHOT, [some |-> FALSE] when None
    storage,                 \* what LocalStorage holds under LOCAL_STORAGE_KEY
    last_save_time,          \* the system's Local<f32>, in milliseconds
    raw_elapsed,             \* Time::raw_elapsed_seconds, in milliseconds
    save_calls,              \* runs of periodic_save_world_state_system
    \* ---- observation of the grid and the save (history) ----
    applied,                 \* the latest applied command, with the world before it
    saved                    \* what the latest run of the save system did

antVars == <<hunger, inventory, can_act, has_initiative, dead, role, position,
             facing, food, commands, results, pc, tick>>
antHist == <<acts, committed, last, starved, before>>

clockVars == <<story_real_world_time, now, elapsed_ticks, is_real_time,
               ticks_per_second, accumulated, period, pending_ticks,
               initial_pending_ticks, playback, next_playback, phase, panicked,
               frames, sim_ticks, rate_changes, resources, teardown, resume,
               entry>>

worldVars == <<elements_cache, element, marked, id_map, spawned, grid_panicked>>

gridVars == <<worldVars, queue, flushing, queued, applied>>

saveVars == <<save_snapshot, storage, last_save_time, raw_elapsed, save_calls,
              saved>>

vars == <<antVars, antHist, clockVars, gridVars, saveVars>>

----------------------------------------------------------------------------
(* Bounds of the model *)

MaxTicks == 2

(* Program constants *)

HungerMax == 100
HungerRate == 10

Ants == {1, 2, 3}
InitialHunger == {0, 30, 80}

Min(a, b) == IF a <= b THEN a ELSE b

----------------------------------------------------------------------------
(* Hunger *)

HungerTickUnclamped(v) == v + HungerRate

HungerTick(v) == Min(v + HungerRate, HungerMax)

IsFull(v) == v * 100 < HungerMax * 25

IsPeckish(v) == v * 100 >= HungerMax * 25

IsHungry(v) == v * 100 >= HungerMax * 50

IsStarving(v) == v * 100 >= HungerMax * 75

IsStarved(v) == v >= HungerMax


----------------------------------------------------------------------------
(* Initiative and orientation (the ant module of the repository) *)

CanAct(a) == can_act[a]

Consume(ca, a) == [ca EXCEPT ![a] = FALSE]

GetAheadPosition(a) == IF facing[a] = "Right" THEN position[a] + 1 ELSE position[a] - 1

(* The entities a Query over (.., &mut Initiative) iterates, in iteration order. *)
AntOrder == <<1, 2, 3>>

InQuery(a) == has_initiative[a]

Push(log, a, what) == [log EXCEPT ![a] = Append(@, what)]

----------------------------------------------------------------------------
(* ants_initiative: the eligibility pass that opens a tick *)

AntsInitiative ==
    /\ pc = "initiative"
    /\ tick < MaxTicks
    /\ tick' = tick + 1
    /\ can_act' = [a \in Ants |-> has_initiative[a]]
    /\ acts' = [a \in Ants |-> <<>>]
    /\ pc' = "hunger"
    /\ UNCHANGED <<hunger, inventory, has_initiative, dead, role, position, facing,
                   food, commands, results, committed, last, starved,
                   before>>
    /\ UNCHANGED <<clockVars, gridVars, saveVars>>

----------------------------------------------------------------------------
(* ants_hunger *)

EatAmount(v) == Min((HungerMax * 20) \div 100, v)

HungerGateAlways(a) == TRUE

(* hunger.rs:100 - the system acts for an ant only while it can act *)
HungerGate(a) == CanAct(a)

ForageTierAny(v) == TRUE

(* hunger.rs:99 - the tier from which the system forages or eats *)
ForageTier(v) == IsPeckish(v)

Starves(a) == InQuery(a) /\ IsStarved(HungerTick(hunger[a]))

ActsOnHunger(a) ==
    /\ InQuery(a)
    /\ ~IsStarved(HungerTick(hunger[a]))
    /\ ForageTier(HungerTick(hunger[a]))
    /\ HungerGate(a)

Digs(a) == ActsOnHunger(a) /\ inventory[a] = "None" /\ GetAheadPosition(a) \in food

Eats(a) == ActsOnHunger(a) /\ inventory[a] = "Food"

EatKeepsInitiative(ca, a) == ca

(* hunger.rs:116-120 - the effect of eating on the ant's initiative *)
EatInitiative(ca, a) == Consume(ca, a)

HungerCommand(a) ==
    IF Starves(a)
    THEN [op |-> "kill", ant |-> a, cell |-> 0]
    ELSE [op |-> "dig", ant |-> a, cell |-> GetAheadPosition(a)]

RECURSIVE EatAll(_, _)
EatAll(ca, order) ==
    IF order = <<>> THEN ca
    ELSE EatAll(IF Eats(Head(order)) THEN EatInitiative(ca, Head(order)) ELSE ca,
                Tail(order))

AntsHunger ==
    /\ pc = "hunger"
    /\ hunger' = [a \in Ants |->
                    IF ~InQuery(a) THEN hunger[a]
                    ELSE IF Eats(a)
                         THEN HungerTick(hunger[a]) - EatAmount(HungerTick(hunger[a]))
                         ELSE HungerTick(hunger[a])]
    /\ inventory' = [a \in Ants |-> IF Eats(a) THEN "None" ELSE inventory[a]]
    /\ can_act' = EatAll(can_act, AntOrder)
    /\ LET issuing == SelectSeq(AntOrder, LAMBDA a : Starves(a) \/ Digs(a))
       IN  commands' = [i \in 1..Len(issuing) |-> HungerCommand(issuing[i])]
    /\ acts' = [a \in Ants |->
                    IF Eats(a) THEN Append(acts[a], "eat")
                    ELSE IF Digs(a) THEN Append(acts[a], "dig")
                    ELSE acts[a]]
    /\ starved' = [a \in Ants |-> starved[a] \/ Starves(a)]
    /\ before' = [hunger |-> [a \in Ants |-> IF InQuery(a) THEN HungerTick(hunger[a])
                                                ELSE hunger[a]],
                  can_act |-> can_act, inventory |-> inventory]
    /\ pc' = "flush"
    /\ UNCHANGED <<has_initiative, dead, role, position, facing, food, results,
                   tick, committed, last>>
    /\ UNCHANGED <<clockVars, gridVars, saveVars>>

----------------------------------------------------------------------------
(* apply_deferred: the commands ants_hunger queued take effect, in order *)

(* commands.entity(e).insert(Dead).remove::<Initiative>() *)
KillAnt(st, a) ==
    [st EXCEPT !.dead[a] = TRUE, !.has_initiative[a] = FALSE, !.can_act[a] = FALSE]

(* commands.dig(ant, cell, food_entity): the food named by the command leaves *)
(* the grid for the ant's inventory; nothing happens when it is gone already. *)
DigElement(st, a, cell) ==
    IF cell \in st.food
    THEN [st EXCEPT !.food = @ \ {cell}, !.inventory[a] = "Food"]
    ELSE st

RECURSIVE ApplyCommands(_, _)
ApplyCommands(st, cmds) ==
    IF cmds = <<>> THEN st
    ELSE LET c == Head(cmds)
         IN  ApplyCommands(IF c.op = "kill" THEN KillAnt(st, c.ant)
                           ELSE DigElement(st, c.ant, c.cell),
                           Tail(cmds))

ApplyDeferred ==
    /\ pc = "flush"
    /\ LET st == ApplyCommands([dead |-> dead, has_initiative |-> has_initiative,
                                can_act |-> can_act, food |-> food,
                                inventory |-> inventory], commands)
       IN  /\ dead' = st.dead
           /\ has_initiative' = st.has_initiative
           /\ can_act' = st.can_act
           /\ food' = st.food
           /\ inventory' = st.inventory
    /\ commands' = <<>>
    /\ pc' = "propose"
    /\ UNCHANGED <<hunger, role, position, facing, results, tick, acts, committed,
                   last, starved, before>>
    /\ UNCHANGED <<clockVars, gridVars, saveVars>>

----------------------------------------------------------------------------
(* ants_regurgitate *)

(* hunger.rs:146-151 *)
IsCandidate(a) ==
    InQuery(a) /\ CanAct(a) /\ IsPeckish(hunger[a]) /\ inventory[a] = "None"

PeckishAnts == SelectSeq(AntOrder, IsCandidate)

IsPartnerSelfIncluded(c, o) ==
    /\ CanAct(o)
    /\ inventory[o] = "None"
    /\ \/ position[o] = GetAheadPosition(c) /\ GetAheadPosition(o) = position[c]
       \/ position[o] = position[c]

(* hunger.rs:162-189 - the predicate of the donor search *)
IsPartner(c, o) ==
    /\ CanAct(o)
    /\ inventory[o] = "None"
    /\ \/ position[o] = GetAheadPosition(c) /\ GetAheadPosition(o) = position[c]
       \/ position[o] = position[c] /\ o # c

FindPartnerByPolicy(c) ==
    LET found == SelectSeq(AntOrder, LAMBDA o :
                    /\ InQuery(o) /\ IsPartner(c, o)
                    /\ \/ role[c] = "Queen"
                       \/ IsStarving(hunger[c]) /\ ~IsHungry(hunger[o])
                       \/ IsHungry(hunger[c]) /\ IsFull(hunger[o]))
    IN  IF found = <<>> THEN 0 ELSE Head(found)

(* hunger.rs:158-161 - find(): the first match in iteration order, 0 for None *)
FindPartner(c) ==
    LET found == SelectSeq(AntOrder, LAMBDA o : InQuery(o) /\ IsPartner(c, o))
    IN  IF found = <<>> THEN 0 ELSE Head(found)

DonationPolicyStarvingOnly(c, o) ==
    \/ role[c] = "Queen"
    \/ IsStarving(hunger[c]) /\ ~IsHungry(hunger[o])

(* hunger.rs:192-194 *)
DonationPolicy(c, o) ==
    \/ role[c] = "Queen"
    \/ IsStarving(hunger[c]) /\ ~IsHungry(hunger[o])
    \/ IsHungry(hunger[c]) /\ IsFull(hunger[o])

HungerTransferAmountFlat(o) == (HungerMax * 20) \div 100

(* hunger.rs:197-198 *)
HungerTransferAmount(o) == Min((HungerMax * 20) \div 100, hunger[o])

Proposes(c) == FindPartner(c) # 0 /\ DonationPolicy(c, FindPartner(c))

Proposals ==
    LET proposing == SelectSeq(PeckishAnts, Proposes)
    IN  [i \in 1..Len(proposing) |->
            [ant |-> proposing[i],
             other |-> FindPartner(proposing[i]),
             amount |-> HungerTransferAmount(FindPartner(proposing[i]))]]

RegurgitatePropose ==
    /\ pc = "propose"
    /\ results' = Proposals
    /\ committed' = <<>>
    /\ last' = [op |-> "none", ant |-> 0, other |-> 0, amount |-> 0,
                hunger |-> hunger, can_act |-> can_act]
    /\ pc' = "apply"
    /\ UNCHANGED <<hunger, inventory, can_act, has_initiative, dead, role, position,
                   facing, food, commands, tick, acts, starved,
                   before>>
    /\ UNCHANGED <<clockVars, gridVars, saveVars>>

RecheckNothing(ant, other) == TRUE

(* hunger.rs:213 - both parties are checked again right before the transfer *)
BothCanAct(ant, other) == CanAct(ant) /\ CanAct(other)

TransferHungerOneSided(h, ant, other, amount) == [h EXCEPT ![ant] = @ - amount]

(* hunger.rs:217-218 *)
TransferHunger(h, ant, other, amount) ==
    [h EXCEPT ![ant] = @ - amount, ![other] = @ + amount]

(* hunger.rs:220-221 *)
TransferInitiative(ca, ant, other) == Consume(Consume(ca, ant), other)

RegurgitateCommit ==
    /\ pc = "apply"
    /\ results # <<>>
    /\ LET r == Head(results)
       IN  /\ BothCanAct(r.ant, r.other)
           /\ hunger' = TransferHunger(hunger, r.ant, r.other, r.amount)
           /\ can_act' = TransferInitiative(can_act, r.ant, r.other)
           /\ acts' = Push(Push(acts, r.ant, "transfer"), r.other, "transfer")
           /\ committed' = Append(committed, r)
           /\ last' = [op |-> "commit", ant |-> r.ant, other |-> r.other,
                       amount |-> r.amount, hunger |-> hunger, can_act |-> can_act]
    /\ starved' = [a \in Ants |-> starved[a] \/ IsStarved(hunger'[a])]
    /\ results' = Tail(results)
    /\ UNCHANGED <<inventory, has_initiative, dead, role, position, facing, food,
                   commands, pc, tick, before>>
    /\ UNCHANGED <<clockVars, gridVars, saveVars>>

RegurgitateSkip ==
    /\ pc = "apply"
    /\ results # <<>>
    /\ LET r == Head(results)
       IN  /\ ~BothCanAct(r.ant, r.other)
           /\ last' = [op |-> "skip", ant |-> r.ant, other |-> r.other,
                       amount |-> r.amount, hunger |-> hunger, can_act |-> can_act]
    /\ results' = Tail(results)
    /\ UNCHANGED <<hunger, inventory, can_act, has_initiative, dead, role, position,
                   facing, food, commands, pc, tick, acts, committed, starved,
                   before>>
    /\ UNCHANGED <<clockVars, gridVars, saveVars>>

RegurgitateDone ==
    /\ pc = "apply"
    /\ results = <<>>
    /\ pc' = "initiative"
    /\ UNCHANGED <<hunger, inventory, can_act, has_initiative, dead, role, position,
                   facing, food, commands, results, tick, acts, committed, last,
                   starved, before>>
    /\ UNCHANGED <<clockVars, gridVars, saveVars>>

----------------------------------------------------------------------------
(* Story clock: constants and arithmetic *)

DEFAULT_TICKS_PER_SECOND == 10
MAX_SYSTEM_TICKS_PER_SECOND == 50000
SECONDS_PER_DAY == 86400

MaxFrames == 2
MaxSimTicks == 4
MaxRateChanges == 2

(* The 64-bit words of the source (i64, u64, isize) are modelled at 24 bits:  *)
(* the wrap-around of a cast or of a product is the same function of the      *)
(* operands, and every in-range quantity of the model (at most one day of     *)
(* ticks) stays clear of the sign bit.                                        *)
WordModulus == 2^24

(* `x as u64` *)
AsU64(x) == x % WordModulus

(* `x as isize` *)
AsIsize(x) ==
    IF x % WordModulus >= WordModulus \div 2
    THEN (x % WordModulus) - WordModulus
    ELSE x % WordModulus

(* chrono's Duration::num_seconds(): whole seconds, rounded toward zero *)
NumSeconds(millis) ==
    IF millis >= 0 THEN millis \div 1000 ELSE -((-millis) \div 1000)

(* std Duration::from_secs and Duration::as_secs, on tenths of a second *)
FromSecs(secs) == secs * 10

AsSecs(duration) == duration \div 10

(* What one expend() takes from the accumulator: one period, 1 / rate seconds *)
PeriodOf(rate) == 10 \div rate

TicksPerSecondChoices == {1, DEFAULT_TICKS_PER_SECOND}

(* Real time between two frames, in tenths of a second: 1.5 s, 3 s *)
FrameDeltas == {15, 30}

(* Real time between the saved timestamp and a restart, in seconds: a clock   *)
(* set back by 5 s, short gaps, one day, 25 hours, 2 days, 10 days            *)
ResumeGaps == {-5, 1, 3, SECONDS_PER_DAY, 90000, 2 * SECONDS_PER_DAY,
               10 * SECONDS_PER_DAY}

----------------------------------------------------------------------------
(* setup_story_time *)

(* story_time.rs:232 *)
SecondsPastMax(delta_seconds) == delta_seconds - SECONDS_PER_DAY

MissedTicksAnyClock(delta_seconds) ==
    IF SecondsPastMax(delta_seconds) > 0
    THEN SecondsPastMax(delta_seconds) * ticks_per_second
    ELSE 0

MissedTicksUnguarded(delta_seconds) ==
    IF is_real_time THEN SecondsPastMax(delta_seconds) * ticks_per_second ELSE 0

(* story_time.rs:234-239 - the ticks added to elapsed_ticks *)
MissedTicks(delta_seconds) ==
    IF SecondsPastMax(delta_seconds) > 0 /\ is_real_time
    THEN SecondsPastMax(delta_seconds) * ticks_per_second
    ELSE 0

BacklogUnclamped(delta_seconds) == FromSecs(AsU64(delta_seconds))

(* story_time.rs:234-247 - the duration handed to simulation_time.tick *)
Backlog(delta_seconds) ==
    IF SecondsPastMax(delta_seconds) > 0
    THEN FromSecs(AsU64(SECONDS_PER_DAY))
    ELSE FromSecs(AsU64(delta_seconds))

FirstRunNever == FALSE

(* story_time.rs:225 - no timestamp was ever stored *)
FirstRun == story_real_world_time = 0

SetupStoryTime ==
    /\ phase = "setup"
    /\ ~panicked
    /\ IF FirstRun
       THEN /\ story_real_world_time' = now
            /\ UNCHANGED <<elapsed_ticks, accumulated>>
            /\ resume' = [op |-> "first", delta |-> 0, real |-> is_real_time,
                          tps |-> ticks_per_second, teleported |-> 0,
                          backlog |-> 0]
       ELSE LET delta_seconds == NumSeconds(now - story_real_world_time)
            IN  /\ elapsed_ticks' = elapsed_ticks + MissedTicks(delta_seconds)
                /\ accumulated' = accumulated + Backlog(delta_seconds)
                /\ resume' = [op |-> "resume", delta |-> delta_seconds,
                              real |-> is_real_time, tps |-> ticks_per_second,
                              teleported |-> elapsed_ticks' - elapsed_ticks,
                              backlog |-> accumulated' - accumulated]
                /\ UNCHANGED story_real_world_time
    /\ next_playback' = "Playing"
    /\ phase' = "story"
    /\ UNCHANGED <<now, is_real_time, ticks_per_second, period, pending_ticks,
                   initial_pending_ticks, playback, panicked, frames, sim_ticks,
                   rate_changes, entry, resources, teardown>>
    /\ UNCHANGED <<antVars, antHist, gridVars, saveVars>>

----------------------------------------------------------------------------
(* set_rate_of_time *)

(* story_time.rs:285 - the product is taken on u64 *)
OwedProduct(acc) == AsU64(ticks_per_second) * AsSecs(acc)

(* story_time.rs:285 - `as isize` of the product *)
OwedTicks(acc) == AsIsize(OwedProduct(acc))

BacklogAlways(acc) == AsSecs(acc) > 0

(* story_time.rs:272 *)
HasBacklog(acc) == AsSecs(acc) > 1

DrainNothing(pending) == pending

(* story_time.rs:292 *)
DrainPending(pending) == pending - 1

RestoredRateDefault == DEFAULT_TICKS_PER_SECOND

(* story_time.rs:265 - the rate whose period is restored on leaving *)
RestoredRate == ticks_per_second

FastForwardFromAnyState == TRUE

(* story_time.rs:282 *)
MayFastForward == playback # "Paused"

(* story_time.rs:263-264 - the branch that leaves the fast-forward *)
LeavesFastForward == pending_ticks = 0 /\ playback = "FastForwarding"

(* story_time.rs:263-283 - the branch that enters a fast-forward *)
EntersFastForward(acc) ==
    /\ pending_ticks = 0
    /\ playback # "FastForwarding"
    /\ HasBacklog(acc)
    /\ MayFastForward

(* The handler, given the accumulator as the runner's expend() left it.  A    *)
(* product beyond the word either wraps (release build) or aborts the process *)
(* (overflow checks of a debug build).                                        *)
SetRateOfTime(acc) ==
    IF pending_ticks = 0
    THEN IF playback = "FastForwarding"
         THEN /\ period' = RestoredRate
              /\ next_playback' = "Playing"
              /\ initial_pending_ticks' = 0
              /\ accumulated' = acc
              /\ UNCHANGED <<pending_ticks, panicked>>
         ELSE IF HasBacklog(acc)
              THEN IF MayFastForward
                   THEN \/ /\ accumulated' = 0
                           /\ period' = MAX_SYSTEM_TICKS_PER_SECOND
                           /\ next_playback' = "FastForwarding"
                           /\ pending_ticks' = OwedTicks(acc)
                           /\ initial_pending_ticks' = OwedTicks(acc)
                           /\ UNCHANGED panicked
                        \/ /\ OwedProduct(acc) >= WordModulus
                           /\ panicked' = TRUE
                           /\ accumulated' = 0
                           /\ period' = MAX_SYSTEM_TICKS_PER_SECOND
                           /\ next_playback' = "FastForwarding"
                           /\ UNCHANGED <<pending_ticks, initial_pending_ticks>>
                   ELSE /\ accumulated' = 0
                        /\ period' = MAX_SYSTEM_TICKS_PER_SECOND
                        /\ UNCHANGED <<next_playback, pending_ticks,
                                       initial_pending_ticks, panicked>>
              ELSE /\ accumulated' = acc
                   /\ UNCHANGED <<period, next_playback, pending_ticks,
                                  initial_pending_ticks, panicked>>
    ELSE /\ pending_ticks' = DrainPending(pending_ticks)
         /\ accumulated' = acc
         /\ UNCHANGED <<period, next_playback, initial_pending_ticks, panicked>>

ElapsedTicksStandStill == elapsed_ticks' = elapsed_ticks

(* update_story_elapsed_ticks *)
UpdateStoryElapsedTicks == elapsed_ticks' = elapsed_ticks + 1

(* update_story_real_world_time *)
UpdateStoryRealWorldTime == story_real_world_time' = now

(* One pass of the SimulationUpdate schedule: the runner expends one period,  *)
(* then PostSimulationTick and Last run in their chained order.               *)
ElapsedTicksRunAlways == TRUE

(* common/mod.rs:119 - the run condition of update_story_elapsed_ticks *)
ElapsedTicksRun == playback # "Paused"

SimulationTick ==
    /\ phase = "story"
    /\ ~panicked
    /\ playback # "Stopped"
    /\ sim_ticks < MaxSimTicks
    /\ accumulated >= PeriodOf(period)
    /\ IF ElapsedTicksRun
       THEN UpdateStoryElapsedTicks
       ELSE UNCHANGED elapsed_ticks
    /\ UpdateStoryRealWorldTime
    /\ SetRateOfTime(accumulated - PeriodOf(period))
    /\ sim_ticks' = sim_ticks + 1
    /\ entry' =
          IF EntersFastForward(accumulated - PeriodOf(period)) /\ ~panicked'
          THEN [op |-> "entered", tps |-> ticks_per_second,
                ticks |-> initial_pending_ticks', calls |-> 0,
                elapsed |-> elapsed_ticks', paused |-> 0]
          ELSE IF entry.op # "entered" THEN entry
          ELSE IF LeavesFastForward THEN [entry EXCEPT !.op = "left"]
          ELSE IF pending_ticks = 0 THEN [entry EXCEPT !.op = "dropped"]
          ELSE [entry EXCEPT !.calls = @ + 1,
                             !.paused = IF playback = "Paused" THEN @ + 1 ELSE @]
    /\ UNCHANGED <<now, is_real_time, ticks_per_second, playback, phase, frames,
                   rate_changes, resume, resources, teardown>>
    /\ UNCHANGED <<antVars, antHist, gridVars, saveVars>>

----------------------------------------------------------------------------
(* The frame: real time passes, then the Update schedule and the transitions *)

FrameAdvance ==
    /\ phase = "story"
    /\ ~panicked
    /\ frames < MaxFrames
    /\ \E dt \in FrameDeltas :
          /\ now' = now + dt * 100
          /\ accumulated' = accumulated + dt
    /\ frames' = frames + 1
    /\ UNCHANGED <<story_real_world_time, elapsed_ticks, is_real_time,
                   ticks_per_second, period, pending_ticks, initial_pending_ticks,
                   playback, next_playback, phase, panicked, sim_ticks, resume>>
    /\ UNCHANGED <<rate_changes, entry, resources, teardown>>
    /\ UNCHANGED <<antVars, antHist, gridVars, saveVars>>

(* update_story_real_world_time in Update *)
FrameRealWorldTime ==
    /\ phase = "story"
    /\ ~panicked
    /\ playback # "Stopped"
    /\ UpdateStoryRealWorldTime
    /\ UNCHANGED <<now, elapsed_ticks, is_real_time, ticks_per_second, accumulated,
                   period, pending_ticks, initial_pending_ticks, playback,
                   next_playback, phase, panicked, frames, sim_ticks, resume>>
    /\ UNCHANGED <<rate_changes, entry, resources, teardown>>
    /\ UNCHANGED <<antVars, antHist, gridVars, saveVars>>

SuppressedOnlyWhenActive == playback = "FastForwarding"

(* story_time.rs:315-316 *)
RateUpdateSuppressed ==
    playback = "FastForwarding" \/ next_playback = "FastForwarding"

(* update_time_scale *)
UpdateTimeScale ==
    /\ phase = "story"
    /\ ~panicked
    /\ playback # "Stopped"
    /\ IF RateUpdateSuppressed
       THEN UNCHANGED period
       ELSE period' = ticks_per_second
    /\ UNCHANGED <<story_real_world_time, now, elapsed_ticks, is_real_time,
                   ticks_per_second, accumulated, pending_ticks,
                   initial_pending_ticks, playback, next_playback, phase, panicked,
                   frames, sim_ticks, resume>>
    /\ UNCHANGED <<rate_changes, entry, resources, teardown>>
    /\ UNCHANGED <<antVars, antHist, gridVars, saveVars>>

(* apply_state_transition::<StoryPlaybackState> *)
ApplyStateTransition ==
    /\ ~panicked
    /\ next_playback # "None"
    /\ playback' = next_playback
    /\ next_playback' = "None"
    /\ UNCHANGED <<story_real_world_time, now, elapsed_ticks, is_real_time,
                   ticks_per_second, accumulated, period, pending_ticks,
                   initial_pending_ticks, phase, panicked, frames, sim_ticks, resume>>
    /\ UNCHANGED <<rate_changes, entry, resources, teardown>>
    /\ UNCHANGED <<antVars, antHist, gridVars, saveVars>>

(* The user's controls: pause, play and the ticks-per-second setting *)
UserPause ==
    /\ phase = "story"
    /\ ~panicked
    /\ playback = "Playing"
    /\ next_playback' = "Paused"
    /\ UNCHANGED <<story_real_world_time, now, elapsed_ticks, is_real_time,
                   ticks_per_second, accumulated, period, pending_ticks,
                   initial_pending_ticks, playback, phase, panicked, frames,
                   sim_ticks, resume>>
    /\ UNCHANGED <<rate_changes, entry, resources, teardown>>
    /\ UNCHANGED <<antVars, antHist, gridVars, saveVars>>

UserPlay ==
    /\ phase = "story"
    /\ ~panicked
    /\ playback = "Paused"
    /\ next_playback' = "Playing"
    /\ UNCHANGED <<story_real_world_time, now, elapsed_ticks, is_real_time,
                   ticks_per_second, accumulated, period, pending_ticks,
                   initial_pending_ticks, playback, phase, panicked, frames,
                   sim_ticks, resume>>
    /\ UNCHANGED <<rate_changes, entry, resources, teardown>>
    /\ UNCHANGED <<antVars, antHist, gridVars, saveVars>>

UserSetTicksPerSecond ==
    /\ phase = "story"
    /\ ~panicked
    /\ playback # "Stopped"
    /\ rate_changes < MaxRateChanges
    /\ \E tps \in TicksPerSecondChoices \ {ticks_per_second} :
          ticks_per_second' = tps
    /\ rate_changes' = rate_changes + 1
    /\ UNCHANGED <<story_real_world_time, now, elapsed_ticks, is_real_time,
                   accumulated, period, pending_ticks, initial_pending_ticks,
                   playback, next_playback, phase, panicked, frames, sim_ticks,
                   resume>>
    /\ UNCHANGED <<entry, resources, teardown>>
    /\ UNCHANGED <<antVars, antHist, gridVars, saveVars>>

----------------------------------------------------------------------------
(* Teardown and the initialization that follows it *)

MaxRestarts == 1

StoryTimeResources ==
    {"StoryRealWorldTime", "StoryTime", "FastForwardingStateInfo",
     "TicksPerSecond", "SimulationTime"}

RemovedKeepsFastForwardInfo == StoryTimeResources \ {"FastForwardingStateInfo"}

(* remove_story_time_resources: the resources the teardown removes *)
RemovedResources == StoryTimeResources

(* Commands::init_resource: the Default value unless the resource exists *)
InitResource(name, current, default) ==
    IF name \in resources THEN current ELSE default

(* The teardown of a story leaves the playback state at Stopped. *)
StopPlayback == playback' = "Stopped" /\ next_playback' = "None"

(* OnEnter(AppState::Cleanup) *)
Cleanup ==
    /\ phase = "story"
    /\ ~panicked
    /\ teardown.count < MaxRestarts
    /\ resources' = resources \ RemovedResources
    /\ StopPlayback
    /\ phase' = "cleanup"
    /\ teardown' = [count |-> teardown.count + 1, pending |-> pending_ticks]
    /\ UNCHANGED <<story_real_world_time, now, elapsed_ticks, is_real_time,
                   ticks_per_second, accumulated, period, pending_ticks,
                   initial_pending_ticks, panicked, frames, sim_ticks,
                   rate_changes, resume, entry>>
    /\ UNCHANGED <<antVars, antHist, gridVars, saveVars>>

(* OnEnter(AppState::FinishSetup): initialize_story_time_resources *)
InitializeStoryTimeResources ==
    /\ phase = "cleanup"
    /\ story_real_world_time' = InitResource("StoryRealWorldTime", story_real_world_time, 0)
    /\ elapsed_ticks' = InitResource("StoryTime", elapsed_ticks, 0)
    /\ is_real_time' = InitResource("StoryTime", is_real_time, FALSE)
    /\ pending_ticks' = InitResource("FastForwardingStateInfo", pending_ticks, 0)
    /\ initial_pending_ticks' =
          InitResource("FastForwardingStateInfo", initial_pending_ticks, 0)
    /\ ticks_per_second' =
          InitResource("TicksPerSecond", ticks_per_second, DEFAULT_TICKS_PER_SECOND)
    /\ accumulated' = 0
    /\ period' = DEFAULT_TICKS_PER_SECOND
    /\ resources' = StoryTimeResources
    /\ phase' = "setup"
    /\ resume' = [op |-> "none", delta |-> 0, real |-> FALSE, tps |-> 0,
                  teleported |-> 0, backlog |-> 0]
    /\ entry' = [op |-> "none", tps |-> 0, ticks |-> 0, calls |-> 0, elapsed |-> 0,
                paused |-> 0]
    /\ UNCHANGED <<now, playback, next_playback, panicked, frames, sim_ticks,
                   rate_changes, teardown>>
    /\ UNCHANGED <<antVars, antHist, gridVars, saveVars>>

----------------------------------------------------------------------------
(* The world map: its element cache (src/src/map.rs)                         *)

MaxQueued == 2
MaxSaves == 3

NoEntity == 0

(* `position.x as usize`, `position.y as usize` *)
AsUsize(i) == i % WordModulus

(* Vec::get / Vec::get_mut: the index is within the vector *)
Within(vec, i) == AsUsize(i) < Len(vec)

At(vec, i) == vec[AsUsize(i) + 1]

PositionInCache(cache, pos) ==
    /\ cache.some
    /\ Within(cache.rows, pos.y)
    /\ Within(At(cache.rows, pos.y), pos.x)

(* WorldMap::get_element: None, or Some of the cell *)
GetElement(cache, pos) ==
    IF PositionInCache(cache, pos)
    THEN [some |-> TRUE, entity |-> At(At(cache.rows, pos.y), pos.x)]
    ELSE [some |-> FALSE, entity |-> NoEntity]

SetElementClamped(cache, pos, entity) ==
    IF cache.some
    THEN [cache |-> [cache EXCEPT !.rows[1][1] = entity], panicked |-> FALSE]
    ELSE [cache |-> cache, panicked |-> TRUE]

(* WorldMap::set_element: the cache after the call, and whether it panicked *)
SetElement(cache, pos, entity) ==
    IF PositionInCache(cache, pos)
    THEN [cache |-> [cache EXCEPT
                       !.rows[AsUsize(pos.y) + 1][AsUsize(pos.x) + 1] = entity],
          panicked |-> FALSE]
    ELSE [cache |-> cache, panicked |-> TRUE]

(* The grid's accessor the commands read through: no entity for a position   *)
(* outside the cache or a cell that holds none.                              *)
GetElementEntity(cache, pos) ==
    IF GetElement(cache, pos).some /\ GetElement(cache, pos).entity # NoEntity
    THEN GetElement(cache, pos)
    ELSE [some |-> FALSE, entity |-> NoEntity]

----------------------------------------------------------------------------
(* Element commands (src/src/story/element/commands.rs)                      *)

ElementKinds == {"Air", "Food", "Sand", "Dirt"}

Live(el, e) == e \in DOMAIN el /\ el[e] \in ElementKinds

(* The world a command is applied to *)
World ==
    [cache |-> elements_cache, element |-> element, marked |-> marked,
     id_map |-> id_map, spawned |-> spawned, panicked |-> grid_panicked]

Abort(w) == [w EXCEPT !.panicked = TRUE]

(* spawn_element: a fresh entity of the kind, registered in the IdMap *)
SpawnElement(w, kind) ==
    [w EXCEPT !.spawned = @ + 1,
              !.element[w.spawned + 1] = kind,
              !.id_map = @ \cup {w.spawned + 1}]

(* World::entity_mut(e).despawn(); entity_mut panics on a missing entity *)
Despawn(w, e) ==
    IF Live(w.element, e)
    THEN [w EXCEPT !.element[e] = "Despawned", !.marked = @ \ {e}]
    ELSE Abort(w)

(* grid.elements_mut().set_element(position, entity) *)
PointCellAt(w, pos, e) ==
    [w EXCEPT !.cache = SetElement(w.cache, pos, e).cache,
              !.panicked = @ \/ SetElement(w.cache, pos, e).panicked]

(* ReplaceElementCommand::apply, past its two early returns *)
ReplaceOccupant(w, cmd) ==
    LET gone == Despawn(w, cmd.target)
    IN  IF gone.panicked THEN gone
        ELSE PointCellAt(SpawnElement(gone, cmd.element), cmd.position,
                         gone.spawned + 1)

ApplyReplaceUnchecked(w, cmd) ==
    LET existing == GetElementEntity(w.cache, cmd.position)
    IN  IF ~existing.some THEN w
        ELSE ReplaceOccupant(w, cmd)

(* ReplaceElementCommand::apply *)
ApplyReplace(w, cmd) ==
    LET existing == GetElementEntity(w.cache, cmd.position)
    IN  IF ~existing.some THEN w
        ELSE IF existing.entity # cmd.target THEN w
        ELSE ReplaceOccupant(w, cmd)

SpawnOverOccupant(w, cmd) == FALSE

(* SpawnElementCommand::apply: the early return on an occupied cell *)
SpawnRefused(w, cmd) == GetElementEntity(w.cache, cmd.position).some

(* SpawnElementCommand::apply *)
ApplySpawn(w, cmd) ==
    IF SpawnRefused(w, cmd) THEN w
    ELSE PointCellAt(SpawnElement(w, cmd.element), cmd.position, w.spawned + 1)

ToggleAnyOccupant(existing, cmd) == TRUE

(* ToggleElementCommand::apply: the occupant is the named target *)
ToggleTargetMatches(existing, cmd) == existing.entity = cmd.target

(* ToggleElementCommand::apply *)
ApplyToggle(w, cmd) ==
    LET existing == GetElementEntity(w.cache, cmd.position)
    IN  IF ~existing.some THEN w
        ELSE IF ~ToggleTargetMatches(existing, cmd) THEN w
        ELSE IF ~Live(w.element, existing.entity) THEN Abort(w)
        ELSE IF cmd.toggle
             THEN [w EXCEPT !.marked = @ \cup {existing.entity}]
             ELSE [w EXCEPT !.marked = @ \ {existing.entity}]

ApplyElementCommand(w, cmd) ==
    CASE cmd.op = "replace" -> ApplyReplace(w, cmd)
      [] cmd.op = "spawn" -> ApplySpawn(w, cmd)
      [] cmd.op = "toggle" -> ApplyToggle(w, cmd)

----------------------------------------------------------------------------
(* Queueing and applying the element commands *)

Pos(x, y) == [x |-> x, y |-> y]

(* The cells of the cache and one column beyond it *)
CommandPositions == {Pos(0, 0), Pos(1, 0), Pos(2, 0)}

CommandTargets == {1, 3}

Command(op, pos, kind, target, toggle) ==
    [op |-> op, position |-> pos, element |-> kind, target |-> target,
     toggle |-> toggle]

ElementCommands ==
    {Command("spawn", pos, "Food", NoEntity, FALSE) : pos \in CommandPositions}
    \cup {Command("replace", pos, "Sand", t, FALSE) :
            pos \in CommandPositions, t \in CommandTargets}
    \cup {Command("toggle", pos, "Air", t, b) :
            pos \in {Pos(0, 0), Pos(2, 0)}, t \in CommandTargets, b \in BOOLEAN}

(* ElementCommandsExt: replace_element, spawn_element, toggle_element_command *)
QueueElementCommand ==
    /\ ~grid_panicked
    /\ ~flushing
    /\ queued < MaxQueued
    /\ \E cmd \in ElementCommands : queue' = Append(queue, cmd)
    /\ queued' = queued + 1
    /\ UNCHANGED <<worldVars, flushing, applied>>
    /\ UNCHANGED <<antVars, antHist, clockVars, saveVars>>

(* Cells of the cache, beyond its columns and rows, negative coordinates *)
MapPositions == {Pos(0, 0), Pos(1, 0), Pos(2, 0), Pos(-1, 0), Pos(0, 1),
                 Pos(0, -1)}

(* A caller of WorldMap::set_element *)
WorldMapSetElement ==
    /\ ~grid_panicked
    /\ ~flushing
    /\ \E pos \in MapPositions, e \in CommandTargets :
          /\ elements_cache' = SetElement(elements_cache, pos, e).cache
          /\ grid_panicked' = SetElement(elements_cache, pos, e).panicked
          /\ applied' = [cmd |-> Command("set_element", pos, "Air", e, FALSE),
                         before |-> World]
    /\ UNCHANGED <<element, marked, id_map, spawned, queue, flushing, queued>>
    /\ UNCHANGED <<antVars, antHist, clockVars, saveVars>>

EventPositions == {Pos(0, 0), Pos(1, 0), Pos(2, 0)}

ExternalEvents ==
    {[event |-> e, position |-> pos] :
        e \in {"SpawnFood", "SpawnSand", "DespawnElement"},
        pos \in EventPositions}

(* The grid's is_element: the cell holds an entity of the kind *)
IsElement(pos, kind) ==
    /\ GetElementEntity(elements_cache, pos).some
    /\ Live(element, GetElementEntity(elements_cache, pos).entity)
    /\ element[GetElementEntity(elements_cache, pos).entity] = kind

(* process_external_event: the commands one event queues *)
EventCommands(ev) ==
    LET here == GetElementEntity(elements_cache, ev.position)
    IN  CASE ev.event = "SpawnFood" ->
               IF IsElement(ev.position, "Air")
               THEN <<Command("replace", ev.position, "Food", here.entity, FALSE)>>
               ELSE <<>>
          [] ev.event = "SpawnSand" ->
               IF IsElement(ev.position, "Air")
               THEN <<Command("replace", ev.position, "Sand", here.entity, FALSE)>>
               ELSE <<>>
          [] ev.event = "DespawnElement" ->
               IF here.some
               THEN <<Command("replace", ev.position, "Air", here.entity, FALSE)>>
               ELSE <<>>

(* process_external_event, draining one or two events *)
ProcessExternalEvent ==
    /\ ~grid_panicked
    /\ ~flushing
    /\ LET yields == {EventCommands(ev) : ev \in ExternalEvents}
       IN  \E batch \in (yields \ {<<>>}) \X yields :
              /\ queued + Len(batch[1] \o batch[2]) <= MaxQueued
              /\ queue' = queue \o batch[1] \o batch[2]
              /\ queued' = queued + Len(batch[1] \o batch[2])
    /\ UNCHANGED <<worldVars, flushing, applied>>
    /\ UNCHANGED <<antVars, antHist, clockVars, saveVars>>

(* apply_deferred: the next queued command is applied *)
ApplyQueuedCommand ==
    /\ ~grid_panicked
    /\ queue # <<>>
    /\ LET after == ApplyElementCommand(World, Head(queue))
       IN  /\ elements_cache' = after.cache
           /\ element' = after.element
           /\ marked' = after.marked
           /\ id_map' = after.id_map
           /\ spawned' = after.spawned
           /\ grid_panicked' = after.panicked
    /\ applied' = [cmd |-> Head(queue), before |-> World]
    /\ queue' = Tail(queue)
    /\ flushing' = (Tail(queue) # <<>>)
    /\ UNCHANGED queued
    /\ UNCHANGED <<antVars, antHist, clockVars, saveVars>>

----------------------------------------------------------------------------
(* The world before any command *)

EmptyWorld ==
    [cache |-> [some |-> FALSE, rows |-> <<>>],
     element |-> [e \in 1..(2 + MaxQueued) |-> "Free"],
     marked |-> {}, id_map |-> {}, spawned |-> 0, panicked |-> FALSE]

(* WorldMap::set_elements on a fresh world: one row of two cells, each an    *)
(* element of its own, or the second one without an element                  *)
InitialWorlds ==
    {EmptyWorld}
    \cup {[EmptyWorld EXCEPT !.cache = [some |-> TRUE, rows |-> <<<<1, 2>>>>],
                             !.element[1] = k1, !.element[2] = k2,
                             !.id_map = {1, 2}, !.spawned = 2] :
            k1 \in {"Air", "Food"}, k2 \in {"Air"}}
    \cup {[EmptyWorld EXCEPT !.cache = [some |-> TRUE, rows |-> <<<<1, NoEntity>>>>],
                             !.element[1] = "Air",
                             !.id_map = {1}, !.spawned = 1]}

NoCommand == Command("none", Pos(0, 0), "Air", NoEntity, FALSE)

WorldIs(w) ==
    /\ elements_cache = w.cache
    /\ element = w.element
    /\ marked = w.marked
    /\ id_map = w.id_map
    /\ spawned = w.spawned
    /\ grid_panicked = w.panicked
    /\ queue = <<>>
    /\ queued = 0
    /\ flushing = FALSE
    /\ applied = [cmd |-> NoCommand, before |-> w]

GridAtRest == WorldIs(EmptyWorld)

----------------------------------------------------------------------------
(* The periodic save (src/src/map.rs) *)

AutoSaveIntervalMs == 5000

(* Real time between two runs of the system, in milliseconds *)
SaveDeltas == {1000, 6000}

(* get_world_save_state: the elements and the ants, as the queries give them *)
GetWorldSaveState ==
    [elements |-> [e \in {i \in DOMAIN element : Live(element, i)} |-> element[e]],
     ants |-> <<position, facing, inventory, role>>]

ThrottledNever(saved_at, elapsed) == FALSE

(* map.rs:434-436 *)
Throttled(saved_at, elapsed) ==
    saved_at # 0 /\ elapsed - saved_at < AutoSaveIntervalMs

SaveTimeAlways(ok, saved_at, elapsed) == elapsed

(* map.rs:441-443 *)
SaveTime(ok, saved_at, elapsed) == IF ok THEN elapsed ELSE saved_at

(* write_save_snapshot: LocalStorage after the call; `ok` is the backend's answer *)
WriteSaveSnapshot(ok, snapshot) == IF ok THEN snapshot ELSE storage

(* periodic_save_world_state_system *)
PeriodicSaveWorldState ==
    /\ ~grid_panicked
    /\ ~flushing
    /\ save_calls < MaxSaves
    /\ save_calls' = save_calls + 1
    /\ \E dt \in SaveDeltas, is_fast_forwarding \in BOOLEAN, ok \in BOOLEAN :
          LET elapsed == raw_elapsed + dt
              snapshot == [some |-> TRUE, state |-> GetWorldSaveState]
          IN  /\ raw_elapsed' = elapsed
              /\ IF is_fast_forwarding
                 THEN /\ UNCHANGED <<save_snapshot, storage, last_save_time>>
                      /\ saved' = [op |-> "skipped", last |-> last_save_time]
                 ELSE /\ save_snapshot' = snapshot
                      /\ IF Throttled(last_save_time, elapsed)
                         THEN /\ UNCHANGED <<storage, last_save_time>>
                              /\ saved' = [op |-> "throttled",
                                           last |-> last_save_time]
                         ELSE /\ storage' = WriteSaveSnapshot(ok, snapshot)
                              /\ last_save_time' =
                                    SaveTime(ok, last_save_time, elapsed)
                              /\ saved' = [op |-> IF ok THEN "written"
                                                  ELSE "failed",
                                           last |-> last_save_time]
    /\ UNCHANGED <<antVars, antHist, clockVars, gridVars>>

NoSnapshot == [some |-> FALSE, state |-> <<>>]

SaveAtRest ==
    /\ save_snapshot = NoSnapshot
    /\ storage = NoSnapshot
    /\ last_save_time = 0
    /\ raw_elapsed = 0
    /\ save_calls = 0
    /\ saved = [op |-> "none", last |-> 0]


----------------------------------------------------------------------------
(* The states before a story runs *)

(* initialize_story_time_resources, with no story loaded *)
ClockAtRest ==
    /\ story_real_world_time = 0
    /\ now = 900000000
    /\ elapsed_ticks = 0
    /\ is_real_time = FALSE
    /\ ticks_per_second = DEFAULT_TICKS_PER_SECOND
    /\ accumulated = 0
    /\ period = DEFAULT_TICKS_PER_SECOND
    /\ pending_ticks = 0
    /\ initial_pending_ticks = 0
    /\ playback = "Stopped"
    /\ next_playback = "None"
    /\ phase = "setup"
    /\ panicked = FALSE
    /\ frames = 0
    /\ sim_ticks = 0
    /\ rate_changes = 0
    /\ resources = StoryTimeResources
    /\ teardown = [count |-> 0, pending |-> 0]
    /\ resume = [op |-> "none", delta |-> 0, real |-> FALSE, tps |-> 0,
                 teleported |-> 0, backlog |-> 0]
    /\ entry = [op |-> "none", tps |-> 0, ticks |-> 0, calls |-> 0, elapsed |-> 0,
                paused |-> 0]

AntsAtRest ==
    /\ hunger = [a \in Ants |-> 0]
    /\ inventory = [a \in Ants |-> "None"]
    /\ can_act = [a \in Ants |-> TRUE]
    /\ has_initiative = [a \in Ants |-> TRUE]
    /\ dead = [a \in Ants |-> FALSE]
    /\ role = [a \in Ants |-> "Worker"]
    /\ position = [a \in Ants |-> 0]
    /\ facing = [a \in Ants |-> "Right"]
    /\ food = {}
    /\ commands = <<>>
    /\ results = <<>>
    /\ pc = "initiative"
    /\ tick = 0
    /\ acts = [a \in Ants |-> <<>>]
    /\ committed = <<>>
    /\ last = [op |-> "none", ant |-> 0, other |-> 0, amount |-> 0,
               hunger |-> hunger, can_act |-> can_act]
    /\ starved = [a \in Ants |-> FALSE]
    /\ before = [hunger |-> hunger, can_act |-> can_act, inventory |-> inventory]

(* initialize_story_time_resources followed by the load of a saved story:    *)
(* StoryRealWorldTime and StoryTime come from the save, the rest is default. *)
InitClock ==
    /\ AntsAtRest
    /\ GridAtRest
    /\ SaveAtRest
    /\ now = 900000000
    /\ \/ /\ story_real_world_time = 0
          /\ elapsed_ticks = 0
       \/ /\ \E gap \in ResumeGaps : story_real_world_time = now - gap * 1000
          /\ elapsed_ticks = 100
    /\ is_real_time \in BOOLEAN
    /\ ticks_per_second = DEFAULT_TICKS_PER_SECOND
    /\ accumulated = 0
    /\ period = DEFAULT_TICKS_PER_SECOND
    /\ pending_ticks = 0
    /\ initial_pending_ticks = 0
    /\ playback = "Stopped"
    /\ next_playback = "None"
    /\ phase = "setup"
    /\ panicked = FALSE
    /\ frames = 0
    /\ sim_ticks = 0
    /\ rate_changes = 0
    /\ resources = StoryTimeResources
    /\ teardown = [count |-> 0, pending |-> 0]
    /\ resume = [op |-> "none", delta |-> 0, real |-> FALSE, tps |-> 0,
                 teleported |-> 0, backlog |-> 0]
    /\ entry = [op |-> "none", tps |-> 0, ticks |-> 0, calls |-> 0, elapsed |-> 0,
                paused |-> 0]

NextClock ==
    \/ SetupStoryTime
    \/ SimulationTick
    \/ FrameAdvance
    \/ FrameRealWorldTime
    \/ UpdateTimeScale
    \/ ApplyStateTransition
    \/ UserPause
    \/ UserPlay
    \/ UserSetTicksPerSecond

SpecClock == InitClock /\ [][NextClock]_vars

(* The story clock with teardown and a new story *)
NextRestart ==
    \/ NextClock
    \/ Cleanup
    \/ InitializeStoryTimeResources

SpecRestart == InitClock /\ [][NextRestart]_vars

----------------------------------------------------------------------------
(* The agents' specification: any placement of three ants, then the ticks *)

Carrying == {[a \in Ants |-> "None"],
             [a \in Ants |-> IF a = 1 THEN "Food" ELSE "None"],
             [a \in Ants |-> IF a = 1 THEN "Sand" ELSE "None"],
             [a \in Ants |-> IF a = 2 THEN "Food" ELSE "None"],
             [a \in Ants |-> IF a = 3 THEN "Food" ELSE "None"]}

Places == {<<0, "Right">>, <<1, "Left">>, <<0, "Left">>}

InitAnts ==
    /\ hunger \in [Ants -> InitialHunger]
    /\ inventory \in Carrying
    /\ \E idle \in {0, 2} : can_act = [a \in Ants |-> a # idle]
    /\ has_initiative = [a \in Ants |-> TRUE]
    /\ dead = [a \in Ants |-> FALSE]
    /\ \E queen \in {0, 2} :
          role = [a \in Ants |-> IF a = queen THEN "Queen" ELSE "Worker"]
    /\ \E place \in [Ants -> Places] :
          /\ position = [a \in Ants |-> place[a][1]]
          /\ facing = [a \in Ants |-> place[a][2]]
    /\ food \in {{}, {-1}}
    /\ commands = <<>>
    /\ results = <<>>
    /\ pc = "hunger"
    /\ tick = 1
    /\ acts = [a \in Ants |-> <<>>]
    /\ committed = <<>>
    /\ last = [op |-> "none", ant |-> 0, other |-> 0, amount |-> 0,
               hunger |-> hunger, can_act |-> can_act]
    /\ starved = [a \in Ants |-> FALSE]
    /\ before = [hunger |-> hunger, can_act |-> can_act, inventory |-> inventory]
    /\ ClockAtRest
    /\ GridAtRest
    /\ SaveAtRest

NextAnts ==
    \/ AntsInitiative
    \/ AntsHunger
    \/ ApplyDeferred
    \/ RegurgitatePropose
    \/ RegurgitateCommit
    \/ RegurgitateSkip
    \/ RegurgitateDone

SpecAnts == InitAnts /\ [][NextAnts]_vars

----------------------------------------------------------------------------
(* The grid's specification: a world, then commands, events and saves *)

InitGrid ==
    /\ AntsAtRest
    /\ ClockAtRest
    /\ \E w \in InitialWorlds : WorldIs(w)
    /\ SaveAtRest

NextGrid ==
    \/ QueueElementCommand
    \/ ProcessExternalEvent
    \/ ApplyQueuedCommand

SpecGrid == InitGrid /\ [][NextGrid]_vars

(* The world map's specification: calls of set_element and periodic saves *)

NextMap ==
    \/ WorldMapSetElement
    \/ PeriodicSaveWorldState

SpecMap == InitGrid /\ [][NextMap]_vars

----------------------------------------------------------------------------
(* Claims about the agents *)

Involves(r, a) == r.ant = a \/ r.other = a

AfterCommit == pc = "apply" /\ last.op = "commit"

(* C1: after any sequence of ticks every agent has 0 <= Hunger.value <= Hunger.max. *)
C1_HungerWithinMax == \A a \in Ants : 0 <= hunger[a] /\ hunger[a] <= HungerMax

(* C2: within one run of ants_regurgitate every agent takes part, as candidate *)
(* or as donor, in at most one committed transfer.                            *)
C2_OneTransferPerAgent ==
    \A a \in Ants :
        Cardinality({i \in DOMAIN committed : Involves(committed[i], a)}) <= 1

C2_Witness ==
    /\ pc = "apply"
    /\ last.op = "skip"
    /\ committed # <<>>
    /\ \E a \in Ants : Involves(last, a) /\ Involves(committed[1], a)

(* C3: a committed transfer subtracts the amount from the donor's value, adds *)
(* it to the candidate's value and consumes the initiative of both.           *)
C3_DonorPaysCandidateGains ==
    AfterCommit =>
        /\ hunger[last.other] = last.hunger[last.other] - last.amount
        /\ hunger[last.ant] = last.hunger[last.ant] + last.amount
        /\ ~can_act[last.ant]
        /\ ~can_act[last.other]

(* C4: a committed transfer leaves the sum of the pair's values as it was and *)
(* changes no other agent's value.                                            *)
C4_TransferConservesHunger ==
    AfterCommit =>
        /\ hunger[last.ant] + hunger[last.other]
             = last.hunger[last.ant] + last.hunger[last.other]
        /\ \A a \in Ants \ {last.ant, last.other} : hunger[a] = last.hunger[a]

C4_Witness ==
    /\ AfterCommit
    /\ last.amount > 0
    /\ hunger[last.ant] # last.hunger[last.ant]
    /\ hunger[last.other] # last.hunger[last.other]

(* C5: an agent whose value reached max during a tick is Dead and without     *)
(* Initiative when that tick ends.                                            *)
C5_StarvedDiesWithinTick ==
    pc = "initiative" => \A a \in Ants : starved[a] => dead[a] /\ ~has_initiative[a]

(* C6: in every tick each agent performs at most one action among starting a  *)
(* dig, eating and being party to a committed transfer.                       *)
C6_OneActionPerTick == \A a \in Ants : Len(acts[a]) <= 1

InCommitted(a) == \E i \in DOMAIN committed : Involves(committed[i], a)

(* The three agents were mutually eligible partners when the run proposed:    *)
(* on one cell, in the query, carrying nothing and with initiative.           *)
ThreeMutuallyEligible ==
    /\ \A a, b \in Ants : position[a] = position[b]
    /\ \A a \in Ants :
          has_initiative[a] /\ inventory[a] = "None" /\ (can_act[a] \/ InCommitted(a))

(* C20: with three mutually eligible agents and at least one proposal, one    *)
(* transfer is committed and it is the first proposal; every later proposal   *)
(* is skipped; the third agent keeps its Hunger and its Initiative.           *)
C20_ThreeAgentsOneTransfer ==
    (pc = "apply" /\ ThreeMutuallyEligible) =>
        /\ Len(committed) <= 1
        /\ last.op = "skip" => committed # <<>>
        /\ (results = <<>> /\ last.op # "none") => Len(committed) = 1
        /\ last.op = "skip" => (hunger = last.hunger /\ can_act = last.can_act)
        /\ \A a \in Ants :
              (committed # <<>> /\ ~InCommitted(a)) =>
                  /\ can_act[a]
                  /\ last.op = "commit" => hunger[a] = last.hunger[a]

C20_Witness ==
    /\ pc = "apply"
    /\ ThreeMutuallyEligible
    /\ results = <<>>
    /\ Len(committed) = 1
    /\ last.op = "skip"
    /\ \E a \in Ants : ~InCommitted(a) /\ can_act[a] /\ Involves(last, a)

AfterPropose == pc = "apply" /\ last.op = "none"

(* C21: a pending transfer whose candidate or donor cannot act when it is     *)
(* applied is skipped whole: no agent's Hunger.value and no agent's           *)
(* Initiative changes.                                                        *)
C21_LostInitiativeSkipsWhole ==
    (/\ pc = "apply"
     /\ last.op # "none"
     /\ ~(last.can_act[last.ant] /\ last.can_act[last.other])) =>
        /\ hunger = last.hunger
        /\ can_act = last.can_act

C21_Witness ==
    /\ pc = "apply"
    /\ last.op = "skip"
    /\ last.amount > 0
    /\ last.can_act[last.ant] # last.can_act[last.other]

Proposed(c) == \E i \in DOMAIN results : results[i].ant = c

C23_AmountFromDonorAtProposal ==
    AfterPropose =>
        \A i \in DOMAIN results :
            LET r == results[i]
            IN  /\ r.amount = IF hunger[r.other] * 5 < HungerMax
                              THEN hunger[r.other]
                              ELSE HungerMax \div 5
                /\ r.amount >= 0
                /\ r.amount <= hunger[r.other]

C23_Witness ==
    /\ AfterPropose
    /\ \E i \in DOMAIN results :
          /\ results[i].amount = hunger[results[i].other]
          /\ results[i].amount > 0
          /\ results[i].amount < HungerMax \div 5

(* C24: every proposed transfer pairs a candidate that can act, is at 25% or  *)
(* more and carries nothing with a donor that can act, carries nothing, is a  *)
(* different agent and stands either on the cell ahead of the candidate while *)
(* facing the candidate's cell, or on the candidate's own cell.               *)
C24_ProposalPairsEligible ==
    AfterPropose =>
        \A i \in DOMAIN results :
            LET c == results[i].ant
                o == results[i].other
            IN  /\ has_initiative[c] /\ can_act[c]
                /\ hunger[c] * 4 >= HungerMax
                /\ inventory[c] = "None"
                /\ o \in Ants /\ o # c
                /\ has_initiative[o] /\ can_act[o]
                /\ inventory[o] = "None"
                /\ \/ /\ position[o] = GetAheadPosition(c)
                      /\ GetAheadPosition(o) = position[c]
                   \/ position[o] = position[c]

C24_Witness ==
    /\ AfterPropose
    /\ \E i \in DOMAIN results : position[results[i].other] # position[results[i].ant]
    /\ \E i \in DOMAIN results : position[results[i].other] = position[results[i].ant]

Dug(a) == \E i \in DOMAIN acts[a] : acts[a][i] = "dig"

Ate(a) == \E i \in DOMAIN acts[a] : acts[a][i] = "eat"

AfterHunger == pc = "flush"

(* C25: an agent that issued a dig in ants_hunger has its initiative consumed *)
(* in that tick, and ants_regurgitate of the same tick selects it neither as  *)
(* candidate nor as donor.                                                    *)
C25_DigConsumesInitiative ==
    /\ \A a \in Ants :
          (pc \in {"flush", "propose", "apply"} /\ Dug(a)) => ~can_act[a]
    /\ AfterPropose =>
          \A i \in DOMAIN results : ~Dug(results[i].ant) /\ ~Dug(results[i].other)

(* C26: an agent forages or eats in ants_hunger only if its value   *)
(* after the advance is at 50% of max or more and it can act.                 *)
C26_ForagesOnlyWhenHungry ==
    AfterHunger =>
        \A a \in Ants :
            (Dug(a) \/ Ate(a)) =>
                before.hunger[a] * 2 >= HungerMax /\ before.can_act[a]

(* The tier the source tests: an agent forages or eats only from 25% of max   *)
(* (peckish) and while it can act; below that tier it neither digs nor eats.  *)
ForagesOnlyWhenPeckish ==
    AfterHunger =>
        \A a \in Ants :
            /\ (Dug(a) \/ Ate(a)) =>
                  before.hunger[a] * 4 >= HungerMax /\ before.can_act[a]
            /\ before.hunger[a] * 4 < HungerMax =>
                  inventory[a] = before.inventory[a] /\ acts[a] = <<>>

ForagesBelowHungry ==
    /\ AfterHunger
    /\ \E a \in Ants : Dug(a) /\ before.hunger[a] * 2 < HungerMax
    /\ \E a \in Ants : Ate(a) /\ before.hunger[a] * 2 < HungerMax
    /\ \E a \in Ants :
          /\ before.hunger[a] * 4 < HungerMax
          /\ before.can_act[a]
          /\ GetAheadPosition(a) \in food
          /\ ~Dug(a)

EatCase(a) ==
    /\ has_initiative[a]
    /\ before.can_act[a]
    /\ before.inventory[a] = "Food"
    /\ before.hunger[a] * 4 >= HungerMax
    /\ before.hunger[a] < HungerMax

(* C27: an agent that eats in ants_hunger ends with an empty inventory, its   *)
(* value lowered by the smaller of 20% of max and the value, not below zero,  *)
(* and its initiative consumed; an agent carrying a non-food element keeps    *)
(* its inventory, its value after the advance and its initiative.             *)
C27_EatingAndNonFood ==
    AfterHunger =>
        \A a \in Ants :
            /\ EatCase(a) =>
                  /\ inventory[a] = "None"
                  /\ hunger[a] = before.hunger[a]
                                   - (IF before.hunger[a] * 5 < HungerMax
                                      THEN before.hunger[a] ELSE HungerMax \div 5)
                  /\ hunger[a] >= 0
                  /\ ~can_act[a]
            /\ (has_initiative[a] /\ before.inventory[a] = "Sand") =>
                  /\ inventory[a] = "Sand"
                  /\ hunger[a] = before.hunger[a]
                  /\ can_act[a] = before.can_act[a]

C27_Witness ==
    /\ AfterHunger
    /\ \E a \in Ants : EatCase(a) /\ hunger[a] < before.hunger[a]

C27_WitnessNonFood ==
    /\ AfterHunger
    /\ \E a \in Ants :
          /\ before.inventory[a] = "Sand"
          /\ before.can_act[a]
          /\ before.hunger[a] * 4 >= HungerMax
          /\ before.hunger[a] < HungerMax

(* C28: consume() runs only on an agent whose can_act() is true at the call:  *)
(* the eater of ants_hunger could act on entry, and both parties of a         *)
(* committed transfer could act right before the commit.                      *)
C28_ConsumeOnlyWhenCanAct ==
    /\ AfterHunger => \A a \in Ants : Ate(a) => before.can_act[a]
    /\ AfterCommit => last.can_act[last.ant] /\ last.can_act[last.other]

C28_Witness ==
    /\ AfterHunger
    /\ \E a \in Ants : Ate(a) /\ before.can_act[a] /\ ~can_act[a]
    /\ \E b \in Ants :
          /\ ~before.can_act[b]
          /\ before.hunger[b] * 4 >= HungerMax
          /\ before.hunger[b] < HungerMax

(* The agents that meet the donor conditions of position, inventory and       *)
(* initiative for candidate c.                                                *)
PositionalDonors(c) ==
    {o \in Ants :
        /\ has_initiative[o] /\ can_act[o]
        /\ inventory[o] = "None"
        /\ \/ position[o] = GetAheadPosition(c) /\ GetAheadPosition(o) = position[c]
           \/ position[o] = position[c] /\ o # c}

FirstInOrder(S) == CHOOSE o \in S : \A p \in S : o <= p

(* C39: for each candidate only the first agent in iteration order that meets *)
(* the positional donor conditions is considered: a proposal names that agent *)
(* as donor, and when the policy rejects it nothing is proposed for the       *)
(* candidate, even if a later positional donor would pass the policy.         *)
C39_OnlyFirstDonorConsidered ==
    AfterPropose =>
        \A c \in Ants :
            (IsCandidate(c) /\ PositionalDonors(c) # {}) =>
                LET first == FirstInOrder(PositionalDonors(c))
                IN  /\ \A i \in DOMAIN results :
                          results[i].ant = c => results[i].other = first
                    /\ ~DonationPolicy(c, first) => ~Proposed(c)

C39_Witness ==
    /\ AfterPropose
    /\ \E c \in Ants :
          /\ IsCandidate(c)
          /\ PositionalDonors(c) # {}
          /\ ~DonationPolicy(c, FirstInOrder(PositionalDonors(c)))
          /\ \E o \in PositionalDonors(c) : DonationPolicy(c, o)
          /\ ~Proposed(c)

(* Every donor of a proposal was advanced by ants_hunger earlier in the same  *)
(* tick, by a positive rate, and kept its initiative, so it did not eat: its  *)
(* value, and with it the amount of the proposal, is above zero.              *)
ProposedAmountPositive ==
    AfterPropose =>
        \A i \in DOMAIN results :
            hunger[results[i].other] > 0 /\ results[i].amount > 0

(* What the apply loop does with an amount of zero, were one proposed: the    *)
(* transfer commits, the values stay and both initiatives are consumed.       *)
ZeroAmountCommits ==
    (AfterCommit /\ last.amount = 0) =>
        /\ hunger = last.hunger
        /\ ~can_act[last.ant]
        /\ ~can_act[last.other]

----------------------------------------------------------------------------
(* Claims about the story clock *)

Resumed == resume.op = "resume"

(* C7: on a resume the backlog setup_story_time registers in the accumulator  *)
(* is at most 86400 seconds, for every stored timestamp and current time.     *)
C7_BacklogAtMostOneDay == Resumed => resume.backlog <= FromSecs(SECONDS_PER_DAY)

(* C8 as written: with is_real_time the ticks one resume adds directly to     *)
(* elapsed_ticks never exceed 24 hours' worth, 86400 x TicksPerSecond.        *)
C8_TeleportAtMostOneDay ==
    (Resumed /\ resume.real) => resume.teleported <= SECONDS_PER_DAY * resume.tps

(* C8 amended: with is_real_time and a gap above 24 hours, the ticks added    *)
(* directly plus the ticks of the registered 24-hour backlog make up the      *)
(* ticks of the whole gap; so a 10-day gap adds 777600 x TicksPerSecond and a *)
(* 2-day gap 86400 x TicksPerSecond.                                          *)
C8_TeleportPlusBacklogIsGap ==
    (Resumed /\ resume.real /\ resume.delta > SECONDS_PER_DAY) =>
        /\ resume.teleported + AsSecs(resume.backlog) * resume.tps
             = resume.delta * resume.tps
        /\ resume.delta = 10 * SECONDS_PER_DAY
             => resume.teleported = 777600 * resume.tps
        /\ resume.delta = 2 * SECONDS_PER_DAY
             => resume.teleported = 86400 * resume.tps

C8_Witness ==
    /\ Resumed
    /\ resume.real
    /\ resume.delta = 10 * SECONDS_PER_DAY
    /\ elapsed_ticks > 100 + SECONDS_PER_DAY * resume.tps

(* C9: a resume adds (delta - 86400) x TicksPerSecond to elapsed_ticks when   *)
(* is_real_time holds and delta > 86400, and nothing otherwise.               *)
C9_TeleportedTicks ==
    Resumed =>
        resume.teleported =
            IF resume.real /\ resume.delta > SECONDS_PER_DAY
            THEN (resume.delta - SECONDS_PER_DAY) * resume.tps
            ELSE 0

C9_Witness ==
    /\ Resumed
    /\ ~resume.real
    /\ resume.delta = 90000
    /\ resume.teleported = 0
    /\ resume.backlog = FromSecs(SECONDS_PER_DAY)

(* C10: in every reachable state 0 <= pending_ticks <= initial_pending_ticks. *)
C10_PendingWithinInitial ==
    0 <= pending_ticks /\ pending_ticks <= initial_pending_ticks

Entered == entry.op = "entered"

(* C11: once a fast-forward is entered with initial_pending_ticks = N,        *)
(* initial_pending_ticks stays N, pending_ticks is N less one per call of     *)
(* set_rate_of_time since, and the calls number at most N: the fast-forward   *)
(* is over after at most N ticks.                                             *)
C11_FastForwardBoundedByN ==
    Entered =>
        /\ initial_pending_ticks = entry.ticks
        /\ pending_ticks = entry.ticks - entry.calls
        /\ entry.calls <= entry.ticks

SetRateOfTimeRan == sim_ticks' # sim_ticks

(* C12: the call of set_rate_of_time that leaves the fast-forward sets the    *)
(* period to 1 / TicksPerSecond for the value TicksPerSecond holds at that    *)
(* call, and no call of set_rate_of_time writes TicksPerSecond.               *)
C12_LeaveRestoresCurrentRate ==
    [][SetRateOfTimeRan =>
          /\ ticks_per_second' = ticks_per_second
          /\ LeavesFastForward => period' = ticks_per_second]_vars

C12_Witness ==
    /\ entry.op = "left"
    /\ entry.ticks > 0
    /\ entry.tps # ticks_per_second
    /\ rate_changes = 2
    /\ period = ticks_per_second
    /\ playback = "FastForwarding"
    /\ next_playback = "Playing"

(* C13: FastForwarding is never requested while the playback state is Paused, *)
(* and the state FastForwarding replaces is never Paused.                     *)
C13_NeverFastForwardFromPaused ==
    [][/\ (next_playback' = "FastForwarding" /\ next_playback # "FastForwarding")
            => playback # "Paused"
       /\ (playback' = "FastForwarding" /\ playback # "FastForwarding")
            => playback # "Paused"]_vars

C13_Witness ==
    /\ playback = "Paused"
    /\ sim_ticks > 0
    /\ accumulated = 0
    /\ period = MAX_SYSTEM_TICKS_PER_SECOND
    /\ pending_ticks = 0
    /\ next_playback = "None"

(* C14: update_time_scale leaves the period alone while the state is, or is   *)
(* about to become, FastForwarding; so from the entry of a fast-forward until *)
(* the call that leaves it the period is 1 / MAX_SYSTEM_TICKS_PER_SECOND.     *)
C14_FastForwardPeriodKept ==
    /\ next_playback = "FastForwarding" => period = MAX_SYSTEM_TICKS_PER_SECOND
    /\ (playback = "FastForwarding" /\ Entered)
         => period = MAX_SYSTEM_TICKS_PER_SECOND

C14_Witness ==
    /\ next_playback = "FastForwarding"
    /\ playback = "Playing"
    /\ Entered
    /\ entry.ticks > 0
    /\ ticks_per_second # DEFAULT_TICKS_PER_SECOND
    /\ period = MAX_SYSTEM_TICKS_PER_SECOND

(* C15: no step makes elapsed_ticks smaller, and only setup_story_time and    *)
(* the simulation tick (update_story_elapsed_ticks) change it.                *)
C15_ElapsedTicksMonotonic ==
    [][/\ elapsed_ticks' >= elapsed_ticks
       /\ elapsed_ticks' # elapsed_ticks
            => (phase = "setup" \/ sim_ticks' # sim_ticks)]_vars

C15_Witness ==
    /\ Resumed
    /\ resume.teleported > 0
    /\ sim_ticks > 1
    /\ elapsed_ticks = 100 + resume.teleported + sim_ticks

(* The accumulator as set_rate_of_time reads it: what the runner's expend()   *)
(* left of it for this tick.                                                  *)
AccumulatedAtCall == accumulated - PeriodOf(period)

(* C29: a call of set_rate_of_time with pending_ticks = 0, outside the        *)
(* fast-forward and with more than one second accumulated (1.5 s included)    *)
(* empties the accumulator and sets the period to 1 / MAX_SYSTEM_TICKS_PER_   *)
(* SECOND; with at most one second accumulated the call changes nothing.      *)
C29_BacklogAboveOneSecond ==
    [][(SetRateOfTimeRan /\ pending_ticks = 0 /\ playback # "FastForwarding") =>
          /\ AccumulatedAtCall > FromSecs(1) =>
                /\ accumulated' = 0
                /\ period' = MAX_SYSTEM_TICKS_PER_SECOND
          /\ AccumulatedAtCall <= FromSecs(1) =>
                /\ accumulated' = AccumulatedAtCall
                /\ UNCHANGED <<period, pending_ticks, initial_pending_ticks,
                               next_playback>>]_vars

(* The threshold the source tests: two whole seconds or more are discharged,  *)
(* anything below two seconds is left alone.                                  *)
BacklogFromTwoSeconds ==
    [][(SetRateOfTimeRan /\ pending_ticks = 0 /\ playback # "FastForwarding") =>
          /\ AccumulatedAtCall >= FromSecs(2) =>
                /\ accumulated' = 0
                /\ period' = MAX_SYSTEM_TICKS_PER_SECOND
          /\ AccumulatedAtCall < FromSecs(2) =>
                /\ accumulated' = AccumulatedAtCall
                /\ UNCHANGED <<period, pending_ticks, initial_pending_ticks,
                               next_playback>>]_vars

(* C30: the call that enters the fast-forward sets pending_ticks and          *)
(* initial_pending_ticks to one value, TicksPerSecond times the seconds the   *)
(* accumulator holds at that call, and no other step writes either field.     *)
C30_EntrySetsOwedTicks ==
    [][/\ (SetRateOfTimeRan /\ EntersFastForward(AccumulatedAtCall) /\ ~panicked') =>
              /\ pending_ticks' = initial_pending_ticks'
              /\ pending_ticks' * FromSecs(1) = ticks_per_second * AccumulatedAtCall
       /\ (pending_ticks' # pending_ticks
             \/ initial_pending_ticks' # initial_pending_ticks) =>
              SetRateOfTimeRan /\ EntersFastForward(AccumulatedAtCall)]_vars

(* What the entry does write: both fields get the wrapped product of          *)
(* TicksPerSecond and the whole seconds of the accumulator.                   *)
EntrySetsWholeSeconds ==
    [][(SetRateOfTimeRan /\ EntersFastForward(AccumulatedAtCall) /\ ~panicked') =>
          /\ pending_ticks' = initial_pending_ticks'
          /\ pending_ticks' = AsIsize(AsU64(ticks_per_second)
                                        * (AccumulatedAtCall \div FromSecs(1)))]_vars

SetupStoryTimeRan == phase = "setup" /\ phase' = "story"

(* C32: setup_story_time always ends by requesting Playing; when the stored   *)
(* timestamp is 0 it stores the current time and touches neither the          *)
(* accumulator nor elapsed_ticks.                                             *)
C32_FirstRunOnlyRecordsTime ==
    [][SetupStoryTimeRan =>
          /\ next_playback' = "Playing"
          /\ story_real_world_time = 0 =>
                /\ story_real_world_time' = now
                /\ accumulated' = accumulated
                /\ elapsed_ticks' = elapsed_ticks]_vars

C32_Witness ==
    /\ resume.op = "first"
    /\ phase = "story"
    /\ next_playback = "Playing"
    /\ story_real_world_time = now
    /\ accumulated = 0
    /\ elapsed_ticks = 0
    /\ sim_ticks = 0

(* C33: a simulation tick leaves elapsed_ticks unchanged while the playback   *)
(* state is Paused and adds exactly one in every other state; the stored      *)
(* real-world timestamp is set to the current time by every tick, paused or   *)
(* not, and every change of it in a running story sets it to the current time.*)
C33_PausedTicksKeepElapsed ==
    [][/\ SetRateOfTimeRan =>
              /\ story_real_world_time' = now
              /\ playback = "Paused" => elapsed_ticks' = elapsed_ticks
              /\ playback # "Paused" => elapsed_ticks' = elapsed_ticks + 1
       /\ (phase = "story" /\ story_real_world_time' # story_real_world_time) =>
              story_real_world_time' = now]_vars

C33_Witness ==
    /\ playback = "Paused"
    /\ resume.op = "first"
    /\ frames > 0
    /\ sim_ticks >= 2
    /\ elapsed_ticks > 0
    /\ elapsed_ticks < sim_ticks
    /\ story_real_world_time = now

(* C34: teardown removes StoryRealWorldTime, StoryTime, FastForwardingState-  *)
(* Info, TicksPerSecond and SimulationTime in one step; the initialization    *)
(* after it leaves pending_ticks = initial_pending_ticks = 0, elapsed_ticks   *)
(* = 0, TicksPerSecond at its default and the stored timestamp at 0; the      *)
(* setup_story_time after it takes the first-run branch and owes nothing.     *)
C34_TeardownAbandonsBacklog ==
    [][/\ (phase = "story" /\ phase' = "cleanup") =>
              resources' \cap {"StoryRealWorldTime", "StoryTime",
                               "FastForwardingStateInfo", "TicksPerSecond",
                               "SimulationTime"} = {}
       /\ (phase = "cleanup" /\ phase' = "setup") =>
              /\ pending_ticks' = 0
              /\ initial_pending_ticks' = 0
              /\ elapsed_ticks' = 0
              /\ ticks_per_second' = DEFAULT_TICKS_PER_SECOND
              /\ story_real_world_time' = 0
       /\ (SetupStoryTimeRan /\ teardown.count > 0) =>
              /\ story_real_world_time = 0
              /\ resume'.op = "first"
              /\ accumulated' = 0
              /\ pending_ticks' = 0
              /\ elapsed_ticks' = 0]_vars

C34_Witness ==
    /\ teardown.count = 1
    /\ teardown.pending > 0
    /\ phase = "story"
    /\ resume.op = "first"
    /\ pending_ticks = 0
    /\ initial_pending_ticks = 0
    /\ accumulated = 0
    /\ elapsed_ticks = 0

(* C36: whenever the playback state is FastForwarding and pending_ticks > 0   *)
(* the period is 1 / MAX_SYSTEM_TICKS_PER_SECOND, however set_rate_of_time,   *)
(* update_time_scale and changes of TicksPerSecond interleave.                *)
C36_FastForwardRunsAtSystemRate ==
    (playback = "FastForwarding" /\ pending_ticks > 0) =>
        period = MAX_SYSTEM_TICKS_PER_SECOND

C36_Witness ==
    /\ playback = "FastForwarding"
    /\ pending_ticks > 0
    /\ pending_ticks < initial_pending_ticks
    /\ rate_changes > 0
    /\ ticks_per_second # entry.tps
    /\ period = MAX_SYSTEM_TICKS_PER_SECOND

(* C37: from a fast-forward entry with initial_pending_ticks = N on, as long  *)
(* as no tick ran in the Paused state, elapsed_ticks has grown by as much as  *)
(* pending_ticks has dropped; when pending_ticks reaches 0 it has grown by N. *)
C37_FastForwardSimulatesOwedTicks ==
    (Entered /\ entry.paused = 0) =>
        /\ elapsed_ticks - entry.elapsed = entry.ticks - pending_ticks
        /\ pending_ticks = 0 => elapsed_ticks = entry.elapsed + entry.ticks

C37_Witness ==
    /\ Entered
    /\ entry.paused = 0
    /\ entry.ticks > 0
    /\ pending_ticks = 0
    /\ playback = "FastForwarding"
    /\ elapsed_ticks = entry.elapsed + entry.ticks

(* C38: every simulation tick that finds pending_ticks nonzero takes one off  *)
(* it, in every playback state; in the Paused state the same tick leaves      *)
(* elapsed_ticks as it was, so a backlog drained while paused is not          *)
(* simulated.                                                                 *)
C38_PausedDrainsWithoutSimulating ==
    [][(SetRateOfTimeRan /\ pending_ticks # 0) =>
          /\ pending_ticks' = pending_ticks - 1
          /\ playback = "Paused" => elapsed_ticks' = elapsed_ticks]_vars

C38_Witness ==
    /\ Entered
    /\ playback = "Paused"
    /\ entry.ticks > 0
    /\ pending_ticks = 0
    /\ entry.paused = entry.ticks
    /\ elapsed_ticks = entry.elapsed

----------------------------------------------------------------------------
(* Claims about the grid, the element commands and the save *)

(* The position names a cell of the cache: 0 <= y < rows, 0 <= x < columns *)
CellExists(cache, pos) ==
    /\ cache.some
    /\ 0 <= pos.y /\ pos.y < Len(cache.rows)
    /\ 0 <= pos.x /\ pos.x < Len(cache.rows[pos.y + 1])

CellAt(cache, pos) == cache.rows[pos.y + 1][pos.x + 1]

Occupied(cache, pos) == CellExists(cache, pos) /\ CellAt(cache, pos) # NoEntity

CacheCells(cache) ==
    {Pos(x, y) : x \in 0..2, y \in 0..1} \cap {pos \in MapPositions : CellExists(cache, pos)}

WorldUnchanged == World = applied.before

(* C16: after any sequence of applied spawn and replace commands no cell      *)
(* references a despawned or missing entity and no entity is referenced by    *)
(* two cells; a spawn on an occupied cell changes nothing; a replace of the   *)
(* named occupant despawns it and points the cell at the new, live element.   *)
C16_CellsReferenceLiveElements ==
    /\ \A pos \in CacheCells(elements_cache) :
          Occupied(elements_cache, pos)
             => Live(element, CellAt(elements_cache, pos))
    /\ \A p1, p2 \in CacheCells(elements_cache) :
          (Occupied(elements_cache, p1) /\ p1 # p2)
             => CellAt(elements_cache, p1) # CellAt(elements_cache, p2)
    /\ (applied.cmd.op = "spawn"
          /\ Occupied(applied.before.cache, applied.cmd.position))
         => WorldUnchanged
    /\ (applied.cmd.op = "replace"
          /\ Occupied(applied.before.cache, applied.cmd.position)
          /\ CellAt(applied.before.cache, applied.cmd.position)
               = applied.cmd.target)
         => /\ ~Live(element, applied.cmd.target)
            /\ CellAt(elements_cache, applied.cmd.position)
                 = applied.before.spawned + 1
            /\ element[applied.before.spawned + 1] = applied.cmd.element

C16_Witness ==
    /\ applied.cmd.op = "spawn"
    /\ Occupied(applied.before.cache, applied.cmd.position)
    /\ element[1] = "Despawned"
    /\ CellAt(elements_cache, applied.cmd.position) > 2
    /\ WorldUnchanged

(* C17: WorldMap::set_element panics and leaves every cell as it was when the *)
(* cache is not initialized or the position is outside its rows or columns,   *)
(* negative coordinates included; otherwise it writes that cell and no other. *)
C17_SetElementAbortsOutside ==
    applied.cmd.op = "set_element" =>
        IF CellExists(applied.before.cache, applied.cmd.position)
        THEN /\ ~grid_panicked
             /\ CellAt(elements_cache, applied.cmd.position) = applied.cmd.target
             /\ \A pos \in CacheCells(elements_cache) \ {applied.cmd.position} :
                   CellAt(elements_cache, pos) = CellAt(applied.before.cache, pos)
        ELSE /\ grid_panicked
             /\ elements_cache = applied.before.cache

C17_Witness ==
    /\ applied.cmd.op = "set_element"
    /\ applied.before.cache.some
    /\ applied.cmd.position.x < 0
    /\ grid_panicked
    /\ elements_cache = applied.before.cache

(* C18: WorldMap::get_element is None for an uninitialized cache or a         *)
(* position outside it, and a replace or toggle command applied to a position *)
(* with no element, or whose occupant is not the named target, leaves the     *)
(* world as it was.                                                           *)
C18_AbsentTargetChangesNothing ==
    /\ \A pos \in MapPositions :
          ~CellExists(elements_cache, pos) => ~GetElement(elements_cache, pos).some
    /\ (applied.cmd.op \in {"replace", "toggle"}
          /\ (~Occupied(applied.before.cache, applied.cmd.position)
               \/ CellAt(applied.before.cache, applied.cmd.position)
                    # applied.cmd.target))
         => WorldUnchanged

C18_Witness ==
    /\ applied.cmd.op = "toggle"
    /\ applied.cmd.toggle
    /\ Occupied(applied.before.cache, applied.cmd.position)
    /\ CellAt(applied.before.cache, applied.cmd.position) # applied.cmd.target
    /\ Live(element, applied.cmd.target)
    /\ WorldUnchanged

SaveRan == save_calls' # save_calls

(* C19: a run of periodic_save_world_state_system whose write fails returns   *)
(* normally, leaves last_save_time, the elements and the ants as they were,   *)
(* and leaves the next run unthrottled, so that it attempts the write again.  *)
C19_FailedSaveChangesNothing ==
    [][(SaveRan /\ saved'.op = "failed") =>
          /\ ~grid_panicked'
          /\ last_save_time' = last_save_time
          /\ UNCHANGED <<worldVars, antVars>>
          /\ ~(last_save_time' # 0
                /\ raw_elapsed' - last_save_time' < AutoSaveIntervalMs)]_vars

C19_Witness ==
    /\ saved.op = "failed"
    /\ last_save_time # 0
    /\ raw_elapsed - last_save_time >= AutoSaveIntervalMs
    /\ storage.some

(* The command about to be applied repeats the replace applied just before it *)
(* in the same flush: same target, same position, and the first one met its   *)
(* target on the cell.                                                        *)
TwinReplacePending ==
    /\ flushing
    /\ queue # <<>>
    /\ Head(queue).op = "replace"
    /\ applied.cmd.op = "replace"
    /\ Head(queue).target = applied.cmd.target
    /\ Head(queue).position = applied.cmd.position
    /\ Occupied(applied.before.cache, applied.cmd.position)
    /\ CellAt(applied.before.cache, applied.cmd.position) = applied.cmd.target

(* C35: of two replace commands naming one target and position and queued     *)
(* before either is applied, the first replaces the element and the second    *)
(* changes nothing: one element is spawned, the target is despawned once and  *)
(* the process does not abort.                                                *)
C35_TwinReplaceAppliesOnce ==
    [][TwinReplacePending =>
          /\ ~Live(element, applied.cmd.target)
          /\ CellAt(elements_cache, applied.cmd.position) = applied.before.spawned + 1
          /\ element[applied.before.spawned + 1] = applied.cmd.element
          /\ UNCHANGED <<elements_cache, element, marked, id_map, spawned>>
          /\ ~grid_panicked'
          /\ spawned' = applied.before.spawned + 1]_vars

C35_Witness ==
    /\ queued = 2
    /\ queue = <<>>
    /\ ~flushing
    /\ ~grid_panicked
    /\ applied.cmd.op = "replace"
    /\ applied.cmd.element = "Food"
    /\ applied.cmd.target # NoEntity
    /\ ~Live(element, applied.cmd.target)
    /\ WorldUnchanged
    /\ Occupied(elements_cache, applied.cmd.position)
    /\ CellAt(elements_cache, applied.cmd.position) = spawned
    /\ element[spawned] = "Food"

====
